---------------------------- MODULE Spec2Model ----------------------------
(***************************************************************************)
(* A model of generate_tcx.py: one run of main() over one metrics table.   *)
(*                                                                         *)
(* Encoding of the data                                                    *)
(*   - an optional value (SQL NULL, Python None) is a sequence of length   *)
(*     0 or 1: <<>> is NULL/None, <<v>> is the value v;                    *)
(*   - an instant is counted in ticks of half a second;                    *)
(*   - a startDate text is [fmt, t]: its textual format and the instant it *)
(*     spells; a datetime is [t, aware] (aware: it carries a UTC offset);  *)
(*   - numbers stored in the table are non-negative whole numbers, so that *)
(*     int(float(x)) is x and int(x / k) is x \div k;                      *)
(*   - latitude and longitude are whole micro-degrees, altitude whole      *)
(*     metres.                                                             *)
(* The geodesic distance and the pace of the printed summary are left out: *)
(* they are only printed, and nothing below reads them.                    *)
(***************************************************************************)
EXTENDS Integers, Sequences, FiniteSets, TLC

\* ------------------------------------------------------------- bounds
\* At most MaxRows rows in a generated metrics table.
MaxRows == 3
\* Targets of the nearest-sample checks range over the ticks 0..MaxTick.
MaxTick == 6

\* -------------------------------------------------- program constants
\* "value > 100" / "doubleValue > 100" of the cadence queries.
CadenceThreshold == 100
\* int(float(calories_raw) / 1000)
CaloriesDivisor == 1000

\* ------------------------------------------------------ small helpers
Abs(x) == IF x < 0 THEN -x ELSE x

RECURSIVE SumSeq(_)
SumSeq(s) == IF s = <<>> THEN 0 ELSE Head(s) + SumSeq(Tail(s))

RECURSIVE FilterIdx(_, _, _)
\* The subsequence of pool at the indexes of keep, in pool order.
FilterIdx(pool, keep, i) ==
    IF i > Len(pool) THEN <<>>
    ELSE (IF i \in keep THEN <<pool[i]>> ELSE <<>>) \o FilterIdx(pool, keep, i + 1)

\* ---------------------------------------------------------- parse_time
\* The formats of a startDate text: "frac" is %Y-%m-%d %H:%M:%S.%f, "plain"
\* is %Y-%m-%d %H:%M:%S, "isoZ" is YYYY-MM-DDTHH:MM:SSZ, "bad" is a text in
\* none of these.
ParseFails(text) == text.fmt = "bad"

\* The datetime a text parses to: the two strptime formats give a naive
\* datetime, fromisoformat of "...+00:00" an aware one.
parse_time(text) == [t |-> text.t, aware |-> text.fmt = "isoZ"]

\* Text order of two startDate values of the same day, as ORDER BY startDate
\* compares them: a "bad" text (it starts with another character) first, then
\* the texts with a space separator, then those with a "T"; within a
\* separator by the clock time, and "HH:MM:SS" before "HH:MM:SS.ffffff".
SepRank(text) == CASE text.fmt = "bad" -> 0
                   [] text.fmt \in {"frac", "plain"} -> 1
                   [] OTHER -> 2

TextLess(a, b) ==
    \/ SepRank(a) < SepRank(b)
    \/ /\ SepRank(a) = SepRank(b)
       /\ \/ a.t < b.t
          \/ a.t = b.t /\ a.fmt = "plain" /\ b.fmt = "frac"

RECURSIVE InsertByStartDate(_, _)
InsertByStartDate(row, sorted) ==
    IF sorted = <<>> THEN <<row>>
    ELSE IF TextLess(row.startDate, Head(sorted).startDate)
         THEN <<row>> \o sorted
         ELSE <<Head(sorted)>> \o InsertByStartDate(row, Tail(sorted))

RECURSIVE OrderByStartDate(_)
\* ORDER BY startDate (no two rows of one result share a startDate here).
OrderByStartDate(rows) ==
    IF rows = <<>> THEN <<>>
    ELSE InsertByStartDate(rows[Len(rows)], OrderByStartDate(SubSeq(rows, 1, Len(rows) - 1)))

\* ------------------------------------------------- find_nearest_metric
\* abs(metric[0] - target_time) raises TypeError when one datetime is aware
\* and the other naive; min() evaluates the key on every entry.
NearestRaises(target_time, metric_list) ==
    \E i \in 1..Len(metric_list) : metric_list[i][1].aware # target_time.aware

RECURSIVE ClosestFrom(_, _, _)
\* min(metric_list, key=...) as a left-to-right scan: a later entry replaces
\* the best so far only when its key is strictly smaller.
ClosestFrom(best, target_time, rest) ==
    IF rest = <<>> THEN best
    ELSE LET m == Head(rest) IN
         ClosestFrom(IF Abs(m[1].t - target_time.t) < Abs(best[1].t - target_time.t)
                     THEN m ELSE best,
                     target_time, Tail(rest))

RECURSIVE ClosestFromLast(_, _, _)
ClosestFromLast(best, target_time, rest) ==
    IF rest = <<>> THEN best
    ELSE LET m == Head(rest) IN
         ClosestFromLast(IF Abs(m[1].t - target_time.t) <= Abs(best[1].t - target_time.t)
                         THEN m ELSE best,
                         target_time, Tail(rest))

\* A find_nearest_metric whose ties go to the last entry.
find_nearest_metric_last(target_time, metric_list) ==
    IF metric_list = <<>> THEN <<>>
    ELSE <<ClosestFromLast(Head(metric_list), target_time, Tail(metric_list))[2]>>

find_nearest_metric(target_time, metric_list) ==
    IF metric_list = <<>> THEN <<>>
    ELSE <<ClosestFrom(Head(metric_list), target_time, Tail(metric_list))[2]>>


\* -------------------------------------------------- the metrics table
\* The column names schema detection looks for.
ColumnUniverse == {"value", "secondaryValue", "doubleValue", "intValue"}

\* sys.argv[2]
activity_id == "run"

\* A row holding a position: the watch layout keeps the latitude in value and
\* the longitude in secondaryValue, the iPhone layout keeps the text "lat,lon"
\* in coordinateValue (here its comma-separated fields).
CoordRow(act, text, lat, lon) ==
    [activityID |-> act, startDate |-> text, source |-> "corelocation",
     value |-> <<lat>>, secondaryValue |-> <<lon>>,
     doubleValue |-> <<>>, intValue |-> <<>>, coordinateValue |-> <<lat, lon>>]

\* A row holding one floating value (value / doubleValue).
DoubleRow(act, src, text, v) ==
    [activityID |-> act, startDate |-> text, source |-> src,
     value |-> <<v>>, secondaryValue |-> <<>>,
     doubleValue |-> <<v>>, intValue |-> <<>>, coordinateValue |-> <<>>]

\* A row holding one integer value (value / intValue).
IntRow(act, src, text, v) ==
    [activityID |-> act, startDate |-> text, source |-> src,
     value |-> <<v>>, secondaryValue |-> <<>>,
     doubleValue |-> <<>>, intValue |-> <<v>>, coordinateValue |-> <<>>]

Frac(t) == [fmt |-> "frac", t |-> t]
Plain(t) == [fmt |-> "plain", t |-> t]
IsoZ(t) == [fmt |-> "isoZ", t |-> t]
BadText == [fmt |-> "bad", t |-> 0]

\* The rows a table is drawn from, in rowid order (deliberately not in time
\* order).  Rows 1..11 are the three-point activity of the end-to-end
\* scenario: positions at 0, 1, 2 s, altitudes 10, 12, 11 m, heart rate 140
\* at 0.5 s and 150 at 1.5 s, raw cadence 170 and 180 at 0 and 2 s, raw
\* calories 250000.
RowPool ==
    << CoordRow("run", Plain(4), 300, 300),
       CoordRow("run", Plain(0), 100, 100),
       CoordRow("run", Frac(2), 200, 200),
       DoubleRow("run", "corelocation", Plain(0), 10),
       DoubleRow("run", "corelocation", Frac(2), 12),
       DoubleRow("run", "corelocation", Plain(4), 11),
       IntRow("run", "healthkit", Frac(3), 150),
       IntRow("run", "healthkit", Frac(1), 140),
       DoubleRow("run", "coremotion", Plain(0), 170),
       DoubleRow("run", "coremotion", Plain(4), 180),
       IntRow("run", "calculatedcalories", Plain(4), 250000),
       \* a speed sample of the motion source, below the cadence threshold
       DoubleRow("run", "coremotion", Frac(2), 3),
       \* a heart-rate sample stamped in ISO-8601 with a Z
       IntRow("run", "healthkit", IsoZ(2), 145),
       \* an altitude sample at sea level
       DoubleRow("run", "corelocation", Plain(6), 0),
       \* a cadence sample whose startDate is in no recognized format
       DoubleRow("run", "coremotion", BadText, 160),
       \* a heart-rate sample of another activity
       IntRow("other", "healthkit", Frac(2), 99) >>

ScenarioRows == 1..11

Tables ==
    { FilterIdx(RowPool, keep, 1) :
        keep \in { k \in SUBSET (1..Len(RowPool)) :
                     Cardinality(k) <= MaxRows \/ k = ScenarioRows } }

ScenarioTable == FilterIdx(RowPool, ScenarioRows, 1)

\* -------------------------------------------------------- detect_schema
\* detect_schema with the two tests in the other order.
detect_schema_iphone_first(cols) ==
    IF "doubleValue" \in cols /\ "intValue" \in cols THEN "iphone"
    ELSE IF "value" \in cols /\ "secondaryValue" \in cols THEN "watch"
    ELSE "UnknownSchema"

\* A detect_schema that falls back to the watch layout instead of raising.
detect_schema_default_watch(cols) ==
    IF "doubleValue" \in cols /\ "intValue" \in cols
          /\ ~("value" \in cols /\ "secondaryValue" \in cols)
    THEN "iphone" ELSE "watch"

\* The schema variant of a column set, or "UnknownSchema" for the ValueError.
detect_schema(cols) ==
    IF "value" \in cols /\ "secondaryValue" \in cols THEN "watch"
    ELSE IF "doubleValue" \in cols /\ "intValue" \in cols THEN "iphone"
    ELSE "UnknownSchema"

\* -------------------------------------------------------------- queries
\* The WHERE clause of queries[schema][name].
Where(sch, name, row, act) ==
    /\ row.activityID = act
    /\ CASE name = "location" ->
              /\ row.source = "corelocation"
              /\ IF sch = "iphone" THEN row.coordinateValue # <<>>
                                   ELSE row.secondaryValue # <<>>
         [] name = "altitude" ->
              /\ row.source = "corelocation"
              /\ IF sch = "iphone" THEN row.coordinateValue = <<>>
                                   ELSE row.secondaryValue = <<>>
         [] name = "heart_rate" ->
              /\ row.source = "healthkit"
              /\ sch = "iphone" => row.intValue # <<>>
         [] name = "cadence" ->
              /\ row.source = "coremotion"
              /\ IF sch = "iphone"
                 THEN /\ row.doubleValue # <<>>
                      /\ row.doubleValue[1] > CadenceThreshold
                      /\ row.intValue = <<>>
                 ELSE /\ row.value # <<>>
                      /\ row.value[1] > CadenceThreshold
         [] name = "calories" -> row.source = "calculatedcalories"

\* The SELECT list of queries[schema][name], after startDate.
Columns(sch, name, row) ==
    CASE name = "location" ->
           IF sch = "iphone" THEN <<row.startDate, row.coordinateValue>>
                             ELSE <<row.startDate, row.value, row.secondaryValue>>
      [] name \in {"altitude", "cadence"} ->
           <<row.startDate, IF sch = "iphone" THEN row.doubleValue ELSE row.value>>
      [] OTHER ->
           <<row.startDate, IF sch = "iphone" THEN row.intValue ELSE row.value>>

RECURSIVE Matching(_, _, _, _)
Matching(sch, name, tbl, act) ==
    IF tbl = <<>> THEN <<>>
    ELSE (IF Where(sch, name, Head(tbl), act) THEN <<Head(tbl)>> ELSE <<>>)
         \o Matching(sch, name, Tail(tbl), act)

\* cursor.execute(q[name], (activity_id,)); cursor.fetchall() of one of the
\* four series queries.
FetchAll(sch, name, tbl, act) ==
    LET rows == OrderByStartDate(Matching(sch, name, tbl, act))
    IN  [i \in 1..Len(rows) |-> Columns(sch, name, rows[i])]

RECURSIVE MaxOpt(_)
\* MAX(column) over rows of optional values: NULL when no row holds a value.
MaxOpt(vals) ==
    IF vals = <<>> THEN <<>>
    ELSE LET rest == MaxOpt(Tail(vals)) IN
         IF Head(vals) = <<>> THEN rest
         ELSE IF rest = <<>> THEN Head(vals)
         ELSE IF Head(vals)[1] >= rest[1] THEN Head(vals) ELSE rest

\* cursor.fetchone()[0] of the calories query.
FetchOneCalories(sch, tbl, act) ==
    LET rows == Matching(sch, "calories", tbl, act)
    IN  MaxOpt([i \in 1..Len(rows) |-> Columns(sch, "calories", rows[i])[2]])

\* ------------------------------------------------ fetch_data, row by row
\* Each list is built row by row and the first row that raises ends it: the
\* result is [err, data], err "none" or the exception.

RECURSIVE ScalarSeries(_, _)
\* [(parse_time(row[0]), int(float(row[1]) / divisor)) for row in rows]
\* (divisor 1 for the altitude and the heart rate, 2 for the cadence).
ScalarSeries(rows, divisor) ==
    IF rows = <<>> THEN [err |-> "none", data |-> <<>>]
    ELSE LET row == Head(rows) IN
         IF ParseFails(row[1]) THEN [err |-> "MalformedTimestamp", data |-> <<>>]
         ELSE IF row[2] = <<>> THEN [err |-> "TypeError", data |-> <<>>]
         ELSE LET rest == ScalarSeries(Tail(rows), divisor) IN
              [err |-> rest.err,
               data |-> <<  <<parse_time(row[1]), row[2][1] \div divisor>>  >> \o rest.data]

\* The nearest altitude passed on without the default: None, here -1.
AltitudeNoDefault(nearest_altitude) ==
    IF nearest_altitude # <<>> THEN nearest_altitude[1] ELSE -1

\* nearest_altitude if nearest_altitude is not None else 0.0
AltitudeOrDefault(nearest_altitude) ==
    IF nearest_altitude # <<>> THEN nearest_altitude[1] ELSE 0

RECURSIVE LocationSeries(_, _, _)
\* The two loops over the location rows.
LocationSeries(sch, rows, altitude_data) ==
    IF rows = <<>> THEN [err |-> "none", data |-> <<>>]
    ELSE LET row == Head(rows)
             \* iPhone: the fields of coords_str.split(','); watch: lat, lon
             fields == IF sch = "iphone" THEN row[2] ELSE row[2] \o row[3]
             skipped == sch = "iphone" /\ Len(row[2]) < 2
         IN
         IF skipped THEN LocationSeries(sch, Tail(rows), altitude_data)
         ELSE IF sch = "iphone" /\ Len(row[2]) > 2
              THEN [err |-> "ValueError", data |-> <<>>]
         ELSE IF ParseFails(row[1]) THEN [err |-> "MalformedTimestamp", data |-> <<>>]
         ELSE IF NearestRaises(parse_time(row[1]), altitude_data)
                 \/ Len(fields) < 2
              THEN [err |-> "TypeError", data |-> <<>>]
         ELSE LET rest == LocationSeries(sch, Tail(rows), altitude_data)
                  loc_time == parse_time(row[1])
              IN [err |-> rest.err,
                  data |-> << [time |-> loc_time,
                               latitude |-> fields[1],
                               longitude |-> fields[2],
                               altitude |-> AltitudeOrDefault(
                                   find_nearest_metric(loc_time, altitude_data))] >>
                           \o rest.data]

\* int(float(calories_raw) / 1000) if calories_raw else 0
CaloriesOf(calories_raw) ==
    IF calories_raw # <<>> /\ calories_raw[1] # 0
    THEN calories_raw[1] \div CaloriesDivisor ELSE 0

\* ------------------------------------------ calculate_and_print_summary
\* The net climb, descents subtracted: the sum of all consecutive deltas.
ElevationGainNet(locs) ==
    IF Len(locs) < 2 THEN 0 ELSE locs[Len(locs)].altitude - locs[1].altitude

RECURSIVE ElevationGain(_)
\* The elevation loop over consecutive points.
ElevationGain(locs) ==
    IF Len(locs) < 2 THEN 0
    ELSE LET n == Len(locs)
             before == ElevationGain(SubSeq(locs, 1, n - 1))
         IN IF locs[n].altitude > locs[n - 1].altitude
            THEN before + (locs[n].altitude - locs[n - 1].altitude)
            ELSE before

Values(series) == [i \in 1..Len(series) |-> series[i][2]]

\* sum(...) / len(...) if the series is not empty else 0, as a fraction.
Mean(series) ==
    IF series # <<>> THEN [num |-> SumSeq(Values(series)), den |-> Len(series)]
    ELSE [num |-> 0, den |-> 1]

\* The cadence mean left in RPM.
MeanSpmNotDoubled(series) ==
    IF series # <<>> THEN [num |-> SumSeq(Values(series)), den |-> Len(series)]
    ELSE [num |-> 0, den |-> 1]

\* (sum(...) / len(...)) * 2 if cadence_data else 0
MeanSpm(series) ==
    IF series # <<>> THEN [num |-> SumSeq(Values(series)) * 2, den |-> Len(series)]
    ELSE [num |-> 0, den |-> 1]

\* location_data[-1]['time'] - location_data[0]['time'] raises TypeError
SummaryRaises(locs) == locs[Len(locs)].time.aware # locs[1].time.aware

Summary(locs, hrs, cads, cals) ==
    [total_time_delta |-> locs[Len(locs)].time.t - locs[1].time.t,
     elevation_gain |-> ElevationGain(locs),
     avg_hr |-> Mean(hrs),
     avg_cadence_spm |-> MeanSpm(cads),
     calories |-> cals]

\* ------------------------------------------------------ create_tcx_file
\* datetime.isoformat() + "Z": the instant and what follows the seconds.
IsoformatZ(dt) == [t |-> dt.t, suffix |-> IF dt.aware THEN "+00:00Z" ELSE "Z"]

\* A trackpoint whose cadence is matched in the heart-rate series.
TrackpointOneSeries(point, hrs, cads) ==
    [Time |-> IsoformatZ(point.time),
     LatitudeDegrees |-> point.latitude,
     LongitudeDegrees |-> point.longitude,
     AltitudeMeters |-> point.altitude,
     HeartRateBpm |-> find_nearest_metric(point.time, hrs),
     Cadence |-> find_nearest_metric(point.time, hrs)]

Trackpoint(point, hrs, cads) ==
    [Time |-> IsoformatZ(point.time),
     LatitudeDegrees |-> point.latitude,
     LongitudeDegrees |-> point.longitude,
     AltitudeMeters |-> point.altitude,
     HeartRateBpm |-> find_nearest_metric(point.time, hrs),
     Cadence |-> find_nearest_metric(point.time, cads)]

TrackRaises(locs, hrs, cads) ==
    \E i \in 1..Len(locs) :
        NearestRaises(locs[i].time, hrs) \/ NearestRaises(locs[i].time, cads)

Document(locs, hrs, cads) ==
    [Id |-> IsoformatZ(locs[1].time),
     StartTime |-> IsoformatZ(locs[1].time),
     Track |-> [i \in 1..Len(locs) |-> Trackpoint(locs[i], hrs, cads)]]

\* ------------------------------------------------------------- the run
VARIABLES
    columns,          \* the column names PRAGMA table_info(metrics) reports
    metrics,          \* the rows of the metrics table, in rowid order
    pc,               \* where main() stands
    conn,             \* "none", "open" or "closed"
    trace,            \* what the run did so far: connects, queries, close, write
    schema,           \* what detect_schema returned ("" before)
    altitude_data, location_data, heart_rate_data, cadence_data, calories,
    summary,          \* <<>> or <<the summary printed>>
    output_file,      \* <<>> while untouched, <<the document>> once written
    messages,         \* the lines printed that tell how the run went
    error             \* "none" or the exception main() caught

vars == <<columns, metrics, pc, conn, trace, schema, altitude_data, location_data,
          heart_rate_data, cadence_data, calories, summary, output_file,
          messages, error>>

data == <<altitude_data, location_data, heart_rate_data, cadence_data, calories>>

Init ==
    /\ columns \in SUBSET ColumnUniverse
    /\ metrics \in Tables
    /\ pc = "connect"
    /\ conn = "none"
    /\ trace = <<>>
    /\ schema = ""
    /\ altitude_data = <<>>
    /\ location_data = <<>>
    /\ heart_rate_data = <<>>
    /\ cadence_data = <<>>
    /\ calories = 0
    /\ summary = <<>>
    /\ output_file = <<>>
    /\ messages = <<>>
    /\ error = "none"

\* The two except clauses of main(): the run reports the exception and ends;
\* nothing else is done, conn.close() included.
Caught(e) ==
    /\ error' = e
    /\ messages' = Append(messages, IF e = "DatabaseError" THEN "Database error"
                                    ELSE "An error occurred")
    /\ pc' = "done"

\* sqlite3.connect(db_path); conn.cursor()
Connect ==
    /\ pc = "connect"
    /\ conn' = "open"
    /\ trace' = Append(trace, "connect")
    /\ pc' = "detect"
    /\ UNCHANGED <<columns, metrics, schema, data, summary, output_file, messages, error>>

\* sqlite3.connect raises sqlite3.Error
ConnectFails ==
    /\ pc = "connect"
    /\ Caught("DatabaseError")
    /\ UNCHANGED <<columns, metrics, conn, trace, schema, data, summary, output_file>>

\* A cursor.execute of fetch_data raises sqlite3.Error: the statement was
\* issued and no row of it is read.
DatabaseFault ==
    /\ pc \in {"detect", "altitude", "location", "heart_rate", "cadence", "calories"}
    /\ trace' = Append(trace, IF pc = "detect" THEN "table_info" ELSE pc)
    /\ Caught("DatabaseError")
    /\ UNCHANGED <<columns, metrics, conn, schema, data, summary, output_file>>

\* schema = detect_schema(cursor)
DetectSchema ==
    /\ pc = "detect"
    /\ trace' = Append(trace, "table_info")
    /\ LET s == detect_schema(columns) IN
       IF s = "UnknownSchema"
       THEN /\ Caught("UnknownSchema")
            /\ UNCHANGED schema
       ELSE /\ schema' = s
            /\ messages' = Append(messages, "Info: schema detected")
            /\ pc' = "altitude"
            /\ UNCHANGED error
    /\ UNCHANGED <<columns, metrics, conn, data, summary, output_file>>

\* cursor.execute(q['altitude'], ...); altitude_data = [...]
FetchAltitude ==
    /\ pc = "altitude"
    /\ trace' = Append(trace, "altitude")
    /\ LET r == ScalarSeries(FetchAll(schema, "altitude", metrics, activity_id), 1) IN
       IF r.err = "none"
       THEN /\ altitude_data' = r.data
            /\ pc' = "location"
            /\ UNCHANGED <<messages, error>>
       ELSE /\ Caught(r.err)
            /\ UNCHANGED altitude_data
    /\ UNCHANGED <<columns, metrics, conn, schema, location_data, heart_rate_data,
                   cadence_data, calories, summary, output_file>>

\* cursor.execute(q['location'], ...) and the loop that fills location_data
FetchLocation ==
    /\ pc = "location"
    /\ trace' = Append(trace, "location")
    /\ LET r == LocationSeries(schema,
                               FetchAll(schema, "location", metrics, activity_id),
                               altitude_data) IN
       IF r.err = "none"
       THEN /\ location_data' = r.data
            /\ pc' = "heart_rate"
            /\ UNCHANGED <<messages, error>>
       ELSE /\ Caught(r.err)
            /\ UNCHANGED location_data
    /\ UNCHANGED <<columns, metrics, conn, schema, altitude_data, heart_rate_data,
                   cadence_data, calories, summary, output_file>>

\* cursor.execute(q['heart_rate'], ...); heart_rate_data = [...]
FetchHeartRate ==
    /\ pc = "heart_rate"
    /\ trace' = Append(trace, "heart_rate")
    /\ LET r == ScalarSeries(FetchAll(schema, "heart_rate", metrics, activity_id), 1) IN
       IF r.err = "none"
       THEN /\ heart_rate_data' = r.data
            /\ pc' = "cadence"
            /\ UNCHANGED <<messages, error>>
       ELSE /\ Caught(r.err)
            /\ UNCHANGED heart_rate_data
    /\ UNCHANGED <<columns, metrics, conn, schema, altitude_data, location_data,
                   cadence_data, calories, summary, output_file>>

\* cursor.execute(q['cadence'], ...); cadence_data = [...]
FetchCadence ==
    /\ pc = "cadence"
    /\ trace' = Append(trace, "cadence")
    /\ LET r == ScalarSeries(FetchAll(schema, "cadence", metrics, activity_id), 2) IN
       IF r.err = "none"
       THEN /\ cadence_data' = r.data
            /\ pc' = "calories"
            /\ UNCHANGED <<messages, error>>
       ELSE /\ Caught(r.err)
            /\ UNCHANGED cadence_data
    /\ UNCHANGED <<columns, metrics, conn, schema, altitude_data, location_data,
                   heart_rate_data, calories, summary, output_file>>

\* cursor.execute(q['calories'], ...); calories = ...; return
FetchCalories ==
    /\ pc = "calories"
    /\ trace' = Append(trace, "calories")
    /\ calories' = CaloriesOf(FetchOneCalories(schema, metrics, activity_id))
    /\ pc' = "close"
    /\ UNCHANGED <<columns, metrics, conn, schema, altitude_data, location_data,
                   heart_rate_data, cadence_data, summary, output_file, messages, error>>

\* A main() that goes on to the summary without closing the connection.
CloseSkipped ==
    /\ pc = "close"
    /\ pc' = "summary"
    /\ UNCHANGED <<columns, metrics, conn, trace, schema, data, summary, output_file,
                   messages, error>>

\* conn.close()
Close ==
    /\ pc = "close"
    /\ conn' = "closed"
    /\ trace' = Append(trace, "close")
    /\ pc' = "summary"
    /\ UNCHANGED <<columns, metrics, schema, data, summary, output_file, messages, error>>

\* calculate_and_print_summary(location_data, heart_rate_data, cadence_data, calories)
Summarize ==
    /\ pc = "summary"
    /\ IF location_data = <<>>
       THEN /\ pc' = "create"
            /\ UNCHANGED <<summary, messages, error>>
       ELSE IF SummaryRaises(location_data)
       THEN /\ Caught("TypeError")
            /\ UNCHANGED summary
       ELSE /\ summary' = <<Summary(location_data, heart_rate_data, cadence_data, calories)>>
            /\ messages' = Append(messages, "Activity Summary")
            /\ pc' = "create"
            /\ UNCHANGED error
    /\ UNCHANGED <<columns, metrics, conn, trace, schema, data, output_file>>

\* A create_tcx_file without its first test.
WritesWithoutLocations ==
    /\ pc = "create"
    /\ IF TrackRaises(location_data, heart_rate_data, cadence_data)
       THEN /\ Caught("TypeError")
            /\ UNCHANGED <<output_file, trace>>
       ELSE /\ output_file' = <<[Id |-> <<>>, StartTime |-> <<>>,
                                 Track |-> [i \in 1..Len(location_data) |->
                                     Trackpoint(location_data[i], heart_rate_data,
                                                cadence_data)]]>>
            /\ trace' = Append(trace, "write")
            /\ messages' = Append(messages, "Successfully created TCX file")
            /\ pc' = "done"
            /\ UNCHANGED error
    /\ UNCHANGED <<columns, metrics, conn, schema, data, summary>>

\* create_tcx_file(location_data, heart_rate_data, cadence_data, output_path)
CreateTcxFile ==
    /\ pc = "create"
    /\ IF location_data = <<>>
       THEN /\ messages' = Append(messages, "Error: No location data")
            /\ pc' = "done"
            /\ UNCHANGED <<output_file, trace, error>>
       ELSE IF TrackRaises(location_data, heart_rate_data, cadence_data)
       THEN /\ Caught("TypeError")
            /\ UNCHANGED <<output_file, trace>>
       ELSE /\ output_file' = <<Document(location_data, heart_rate_data, cadence_data)>>
            /\ trace' = Append(trace, "write")
            /\ messages' = Append(messages, "Successfully created TCX file")
            /\ pc' = "done"
            /\ UNCHANGED error
    /\ UNCHANGED <<columns, metrics, conn, schema, data, summary>>

Next ==
    \/ Connect
    \/ ConnectFails
    \/ DatabaseFault
    \/ DetectSchema
    \/ FetchAltitude
    \/ FetchLocation
    \/ FetchHeartRate
    \/ FetchCadence
    \/ FetchCalories
    \/ Close
    \/ Summarize
    \/ CreateTcxFile

Spec == Init /\ [][Next]_vars

\* ------------------------------------------------------- for the claims
Has(seq, x) == \E i \in 1..Len(seq) : seq[i] = x

Count(seq, x) == Cardinality({i \in 1..Len(seq) : seq[i] = x})

SeriesQueries == {"altitude", "location", "heart_rate", "cadence", "calories"}

ErrorMessages == {"Database error", "An error occurred", "Error: No location data"}

Dist(target_time, m) == Abs(m[1].t - target_time.t)

\* An entry of a non-empty series at minimal distance from the target with
\* every earlier entry strictly farther: the first of the nearest.
IsFirstNearest(i, target_time, series) ==
    /\ \A j \in 1..Len(series) : Dist(target_time, series[i]) <= Dist(target_time, series[j])
    /\ \A j \in 1..(i - 1) : Dist(target_time, series[j]) > Dist(target_time, series[i])

\* What nearest-match is to give: none, or the value of the first nearest.
NearestValue(target_time, series) ==
    IF series = <<>> THEN <<>>
    ELSE <<series[CHOOSE i \in 1..Len(series) : IsFirstNearest(i, target_time, series)][2]>>

Targets == {[t |-> t, aware |-> a] : t \in 0..MaxTick, a \in BOOLEAN}

\* Two entries of the series, the first of them the first nearest, are at the
\* same distance from the target.
TiedAt(target_time, series) ==
    \E i, j \in 1..Len(series) :
        /\ i < j
        /\ IsFirstNearest(i, target_time, series)
        /\ Dist(target_time, series[i]) = Dist(target_time, series[j])

\* C1: find_nearest_metric gives none on an empty series, whatever the
\* target; on a non-empty series it gives the value of an entry no farther
\* from the target than any other entry, and among several such entries the
\* value of the one that comes first in the sequence.  Checked on every
\* series the run has built and every target instant.
C1_NearestIsFirstMinimum ==
    \A series \in {altitude_data, heart_rate_data, cadence_data} :
        \A target \in Targets :
            /\ series = <<>> => find_nearest_metric(target, series) = <<>>
            /\ series # <<>> =>
                 \E i \in 1..Len(series) :
                    /\ IsFirstNearest(i, target, series)
                    /\ find_nearest_metric(target, series) = <<series[i][2]>>

\* C1 witness: a document was written in which a trackpoint's heart rate was
\* decided between two samples equally far from it, and another series of
\* the same run was empty.
C1_Witness ==
    /\ output_file # <<>>
    /\ cadence_data = <<>>
    /\ \E i \in 1..Len(location_data) :
          /\ TiedAt(location_data[i].time, heart_rate_data)
          /\ output_file[1].Track[i].HeartRateBpm
               = NearestValue(location_data[i].time, heart_rate_data)

\* The variant the claim gives to a column set.
Expected(cols) ==
    IF {"value", "secondaryValue"} \subseteq cols THEN "watch"
    ELSE IF {"doubleValue", "intValue"} \subseteq cols THEN "iphone"
    ELSE "UnknownSchema"

\* The run is past schema detection and the PRAGMA statement did not fail.
Detected == Has(trace, "table_info") /\ ~(error = "DatabaseError" /\ Len(trace) = 2)

\* C2: schema detection is total and deterministic: once the detection step
\* has run, its outcome is the one the column set fixes: WATCH when value and
\* secondaryValue are both there (doubleValue and intValue or not), else
\* IPHONE when doubleValue and intValue are both there, else the
\* UnknownSchema failure.
C2_SchemaDetection ==
    Detected =>
        /\ Expected(columns) \in {"watch", "iphone"} =>
              schema = Expected(columns) /\ error # "UnknownSchema"
        /\ Expected(columns) = "UnknownSchema" =>
              schema = "" /\ error = "UnknownSchema"

\* C2 witness: all four columns are there and the watch variant was chosen.
C2_Witness == Detected /\ columns = ColumnUniverse /\ schema = "watch"

\* C3: the output file is written only after schema detection and all five
\* extraction queries succeeded and with a non-empty location series, and
\* what is written is the whole document; a run that ended in an error or
\* with an empty location series reported an error message and left the
\* output file untouched.
C3_WrittenOnlyOnSuccess ==
    /\ output_file # <<>> =>
          /\ schema \in {"watch", "iphone"}
          /\ \A q \in SeriesQueries : Has(trace, q)
          /\ error = "none"
          /\ location_data # <<>>
          /\ Len(output_file[1].Track) = Len(location_data)
          /\ output_file[1].Id = IsoformatZ(location_data[1].time)
    /\ (pc = "done" /\ (error # "none" \/ location_data = <<>>)) =>
          /\ output_file = <<>>
          /\ ~Has(trace, "write")
          /\ \E i \in 1..Len(messages) : messages[i] \in ErrorMessages

\* C3 witness: a run whose queries all succeeded and found no location
\* sample ended with the error reported and no file written.
C3_Witness ==
    /\ pc = "done"
    /\ error = "none"
    /\ Has(trace, "calories")
    /\ location_data = <<>>
    /\ Has(messages, "Error: No location data")
    /\ output_file = <<>>

\* C4: the connection is acquired at most once (exactly once in a run that
\* got past connecting), no query is issued after the close, the close comes
\* right after the calories query, and the write comes after the close.
C4_ConnectionScoped ==
    /\ Count(trace, "connect") <= 1
    /\ pc \notin {"connect"} /\ ~(error = "DatabaseError" /\ trace = <<>>)
          => Count(trace, "connect") = 1
    /\ \A i, j \in 1..Len(trace) :
          (trace[i] = "close" /\ i < j) => trace[j] \notin SeriesQueries \cup {"table_info"}
    /\ \A i \in 1..Len(trace) :
          trace[i] = "close" => (i > 1 /\ trace[i - 1] = "calories")
    /\ \A j \in 1..Len(trace) :
          trace[j] = "write" => (conn = "closed" /\ \E i \in 1..(j - 1) : trace[i] = "close")
    /\ pc \in {"summary", "create"} => conn = "closed"
    /\ pc \in {"detect", "altitude", "location", "heart_rate", "cadence", "calories"}
          => conn = "open"

\* C4 witness: a run that queried, closed and then wrote the document.
C4_Witness ==
    /\ pc = "done"
    /\ output_file # <<>>
    /\ trace = <<"connect", "table_info", "altitude", "location", "heart_rate",
                 "cadence", "calories", "close", "write">>

\* C5: every run that acquired the connection has closed it when it ends,
\* failed runs included.
C5_ClosedAtEnd == (pc = "done" /\ Has(trace, "connect")) => conn = "closed"

\* C6: the track written for a non-empty location series has one trackpoint
\* per location sample, in the same order, with that sample's time, latitude,
\* longitude and altitude; its heart rate is the nearest-match of its time in
\* the heart-rate series and its cadence the nearest-match in the cadence
\* series, each on its own, and the element is absent exactly when that
\* series is empty.  A run that ended without error on a non-empty location
\* series wrote that track.
C6_OneTrackpointPerSample ==
    /\ (pc = "done" /\ error = "none" /\ location_data # <<>>) => output_file # <<>>
    /\ output_file # <<>> =>
          LET Track == output_file[1].Track IN
          /\ Len(Track) = Len(location_data)
          /\ \A i \in 1..Len(Track) :
                /\ Track[i].Time = IsoformatZ(location_data[i].time)
                /\ Track[i].LatitudeDegrees = location_data[i].latitude
                /\ Track[i].LongitudeDegrees = location_data[i].longitude
                /\ Track[i].AltitudeMeters = location_data[i].altitude
                /\ Track[i].HeartRateBpm
                     = NearestValue(location_data[i].time, heart_rate_data)
                /\ Track[i].Cadence
                     = NearestValue(location_data[i].time, cadence_data)
                /\ Track[i].HeartRateBpm = <<>> <=> heart_rate_data = <<>>
                /\ Track[i].Cadence = <<>> <=> cadence_data = <<>>

\* C6 witness: a written track of two or more points in time order, each
\* with a heart rate and none with a cadence.
C6_Witness ==
    /\ output_file # <<>>
    /\ Len(output_file[1].Track) >= 2
    /\ output_file[1].Track[1].Time.t < output_file[1].Track[2].Time.t
    /\ heart_rate_data # <<>>
    /\ cadence_data = <<>>
    /\ \A i \in 1..Len(location_data) :
          /\ output_file[1].Track[i].HeartRateBpm # <<>>
          /\ output_file[1].Track[i].Cadence = <<>>

\* The run was given the activity of the end-to-end scenario and ended
\* without a database fault.
ScenarioRan ==
    /\ metrics = ScenarioTable
    /\ Expected(columns) # "UnknownSchema"
    /\ pc = "done"
    /\ error # "DatabaseError"

\* What the scenario expects apart from the average cadence: 3 trackpoints,
\* heart rate 140 at t = 1 s, elevation gain 2, calories 250.
ScenarioRest ==
    /\ error = "none"
    /\ output_file # <<>>
    /\ Len(output_file[1].Track) = 3
    /\ output_file[1].Track[2].Time.t = 2
    /\ output_file[1].Track[2].HeartRateBpm = <<140>>
    /\ summary # <<>>
    /\ summary[1].elevation_gain = 2
    /\ summary[1].calories = 250
    /\ calories = 250

\* C7 as stated: the scenario ends with 3 trackpoints, heart rate 140 at
\* t = 1 s, elevation gain 2, calories 250 and a reported average cadence of
\* 87.5 SPM.
C7_ScenarioAsStated ==
    ScenarioRan =>
        /\ ScenarioRest
        /\ 2 * summary[1].avg_cadence_spm.num = 175 * summary[1].avg_cadence_spm.den

\* C7 amended: the scenario ends with 3 trackpoints, heart rate 140 at
\* t = 1 s, elevation gain 2, calories 250 and a reported average cadence of
\* 175 SPM, twice the 87.5 mean of the stored cadences 85 and 90.
C7_ScenarioAmended ==
    ScenarioRan =>
        /\ ScenarioRest
        /\ summary[1].avg_cadence_spm.num = 175 * summary[1].avg_cadence_spm.den
        /\ Values(cadence_data) = <<85, 90>>
        /\ 2 * Mean(cadence_data).num = 175 * Mean(cadence_data).den

\* C7 witness: the scenario ran to its end on an iPhone table.
C7_Witness == ScenarioRan /\ schema = "iphone" /\ output_file # <<>>

\* The altitude delta into point i when it is positive, else 0.
Ascent(locs, i) ==
    IF locs[i].altitude > locs[i - 1].altitude
    THEN locs[i].altitude - locs[i - 1].altitude ELSE 0

Prefix(locs, k) == SubSeq(locs, 1, k)

\* C8: the elevation gain is the sum over consecutive points of the altitude
\* delta when positive and 0 otherwise; it is never negative, and a point no
\* higher than its predecessor adds nothing to the gain of the points before
\* it.  Checked on every prefix of the location series, and on the summary.
C8_ElevationGain ==
    /\ \A k \in 0..Len(location_data) :
          LET locs == Prefix(location_data, k) IN
          /\ ElevationGain(locs) = SumSeq([i \in 1..(k - 1) |-> Ascent(locs, i + 1)])
          /\ ElevationGain(locs) >= 0
          /\ (k >= 2 /\ locs[k].altitude <= locs[k - 1].altitude)
                => ElevationGain(locs) = ElevationGain(Prefix(location_data, k - 1))
    /\ summary # <<>> =>
          summary[1].elevation_gain
             = SumSeq([i \in 1..(Len(location_data) - 1) |-> Ascent(location_data, i + 1)])

\* C8 witness: a summary over a climb followed by a descent.
C8_Witness ==
    /\ summary # <<>>
    /\ Len(location_data) = 3
    /\ location_data[2].altitude > location_data[1].altitude
    /\ location_data[3].altitude < location_data[2].altitude
    /\ summary[1].elevation_gain = location_data[2].altitude - location_data[1].altitude

\* C9: when the column set matches neither variant, the run fails with
\* UnknownSchema before any of the five series queries is issued, and ends
\* with no summary and no output.
C9_UnknownSchemaAborts ==
    Expected(columns) = "UnknownSchema" =>
        /\ \A i \in 1..Len(trace) : trace[i] \notin SeriesQueries
        /\ summary = <<>>
        /\ output_file = <<>>
        /\ ~Has(trace, "write")
        /\ Detected => (error = "UnknownSchema" /\ pc = "done"
                        /\ Has(messages, "An error occurred"))

\* C9 witness: a run over a table with only the value and intValue columns
\* ended in UnknownSchema.
C9_Witness ==
    /\ columns = {"value", "intValue"}
    /\ error = "UnknownSchema"
    /\ pc = "done"

\* The location rows of the table, as the location query returns them.
LocationRows == FetchAll(schema, "location", metrics, activity_id)

\* The location step has run and succeeded.
Located == Has(trace, "location") /\ ~(pc = "done" /\ trace[Len(trace)] = "location")

\* C10 as stated: a location sample's altitude is the nearest-match of its
\* time in the altitude series, and is 0.0 exactly when the altitude series
\* is empty.
C10_ZeroExactlyWhenEmpty ==
    Located =>
        \A i \in 1..Len(location_data) :
            location_data[i].altitude = 0 <=> altitude_data = <<>>

\* C10 amended: under both variants a location sample's altitude is the
\* nearest-match of its time in the altitude series when that series is not
\* empty (a matched altitude of 0.0 included) and 0.0 when it is empty; with
\* an empty altitude series the location step does not fail and keeps every
\* location row.
C10_AltitudeNearestOrDefault ==
    /\ Located =>
          \A i \in 1..Len(location_data) :
              /\ altitude_data # <<>> =>
                    <<location_data[i].altitude>>
                       = NearestValue(location_data[i].time, altitude_data)
              /\ altitude_data = <<>> => location_data[i].altitude = 0
    /\ (Has(trace, "location") /\ ~Located /\ altitude_data = <<>>)
          => error = "DatabaseError"
    /\ (Located /\ altitude_data = <<>>) =>
          /\ Len(location_data) = Len(LocationRows)
          /\ \A i \in 1..Len(location_data) :
                location_data[i].time = parse_time(LocationRows[i][1])

\* C10 witness: an iPhone table with positions and no altitude sample gave
\* as many location samples as position rows, all at altitude 0.0.
C10_Witness ==
    /\ schema = "iphone"
    /\ Located
    /\ altitude_data = <<>>
    /\ Len(location_data) >= 2
    /\ \A i \in 1..Len(location_data) : location_data[i].altitude = 0

=============================================================================
